---- MODULE Spec2Model ----
(***************************************************************************)
(* Model of the starter_client package: the URL/header helpers, the        *)
(* StarterClient facade over an injected NetworkClient, and the three      *)
(* TanStack Query hooks (useHistories, useHistoriesTotal,                  *)
(* useHistoryMutations).                                                   *)
(*                                                                         *)
(* Strings that are inspected character-wise (URLs) are sequences of       *)
(* tokens; the token "/" is the slash character and every other token is   *)
(* a slash-free chunk.  Nullable strings use the sentinel Null.            *)
(***************************************************************************)
EXTENDS Naturals, Sequences, FiniteSets, TLC

\* ------------------------------------------------------------------ bounds
MaxBaseLen == 3
MaxPathLen == 2
MaxCalls == 2

\* ------------------------------------------------------------ value domains
Null == "<null>"
NoBody == "<nobody>"
Slash == "/"

UrlAlphabet == {Slash, "h"}

RECURSIVE StrsUpTo(_)
StrsUpTo(n) ==
  IF n = 0 THEN {<<>>}
  ELSE LET shorter == StrsUpTo(n - 1)
       IN shorter \cup {Append(s, c) : s \in {t \in shorter : Len(t) = n - 1}, c \in UrlAlphabet}

UserIds == {"u1", "u2"}
Tokens == {"t1", "t2"}
HistoryIds == {"h1"}
Bodies == {"b1"}

\* a template literal `${x}` renders null as the text "null"
ToStr(x) == IF x = Null THEN "null" ELSE x

\* !!x for a nullable string
Truthy(x) == x # Null /\ x # ""

\* ------------------------------------------------------- starter-helpers.ts
createAuthHeaders_NoScheme(token) ==
  ("Content-Type" :> "application/json") @@
  ("Accept" :> "application/json") @@
  ("Authorization" :> ToStr(token))

createAuthHeaders(token) ==
  ("Content-Type" :> "application/json") @@
  ("Accept" :> "application/json") @@
  ("Authorization" :> ("Bearer " \o ToStr(token)))

createHeaders ==
  ("Content-Type" :> "application/json") @@
  ("Accept" :> "application/json")

\* baseUrl.replace(/\/$/, ''): removes one trailing slash, if there is one
StripTrailingSlash(s) ==
  IF Len(s) > 0 /\ s[Len(s)] = Slash THEN SubSeq(s, 1, Len(s) - 1) ELSE s

buildUrl(base, path) == StripTrailingSlash(base) \o path

\* JSON.stringify of a request body
JsonStringify(d) == "json:" \o d

\* --------------------------------------------------------- StarterClient.ts
UserPath(userId) == <<Slash, "api", Slash, "v1", Slash, "users", Slash, ToStr(userId)>>
HistoriesPath(userId) == UserPath(userId) \o <<Slash, "histories">>
HistoryPath(userId, historyId) == HistoriesPath(userId) \o <<Slash, ToStr(historyId)>>
TotalPath == <<Slash, "api", Slash, "v1", Slash, "histories", Slash, "total">>

Request(verb, url, headers, body) ==
  [verb |-> verb, url |-> url, headers |-> headers, body |-> body]

getUserRequest(base, userId, token) ==
  Request("GET", buildUrl(base, UserPath(userId)), createAuthHeaders(token), NoBody)

getHistoriesRequest(base, userId, token) ==
  Request("GET", buildUrl(base, HistoriesPath(userId)), createAuthHeaders(token), NoBody)

createHistoryRequest(base, userId, data, token) ==
  Request("POST", buildUrl(base, HistoriesPath(userId)), createAuthHeaders(token),
          JsonStringify(data))

updateHistoryRequest(base, userId, historyId, data, token) ==
  Request("PUT", buildUrl(base, HistoryPath(userId, historyId)), createAuthHeaders(token),
          JsonStringify(data))

deleteHistoryRequest(base, userId, historyId, token) ==
  Request("DELETE", buildUrl(base, HistoryPath(userId, historyId)), createAuthHeaders(token),
          NoBody)

getHistoriesTotalRequest(base) ==
  Request("GET", buildUrl(base, TotalPath), createHeaders, NoBody)

\* ------------------------------------------------------------------- state
VARIABLES
  uBase, uPath, uOut, uDone,   \* one application of buildUrl
  kUser, kOther, kOut, kDone,  \* one application of the QUERY_KEYS factories
  baseUrl,                     \* StarterClient.baseUrl
  net,                         \* calls received by the injected NetworkClient, in order
  inv,                         \* invocations of StarterClient methods
  listMounted, listProps,      \* useHistories: mounted, (userId, token, options.enabled)
  totalMounted, totalOpt,      \* useHistoriesTotal: mounted, options.enabled
  mutProps,                    \* useHistoryMutations: (userId, token)
  queries,                     \* the query cache: query key -> query state
  mut,                         \* the three mutation observers' states
  invalidations,               \* query keys passed to queryClient.invalidateQueries, in order
  errOrder,                    \* mutation kinds holding an error, oldest failure first
  pending,                     \* the hooks' transport calls awaiting an answer
  sent,                        \* the transport calls the hooks made in the last step
  lastAnswer,                  \* the transport answer delivered in the last step, if any
  ops                          \* number of steps the caller has taken

urlVars == <<uBase, uPath, uOut, uDone>>
keyVars == <<kUser, kOther, kOut, kDone>>
clientVars == <<baseUrl, net, inv>>
hookVars == <<listMounted, listProps, totalMounted, totalOpt, mutProps, queries, mut,
              invalidations, errOrder, pending, sent, lastAnswer, ops>>
vars == <<uBase, uPath, uOut, uDone, kUser, kOther, kOut, kDone, baseUrl, net, inv, listMounted, listProps,
          totalMounted, totalOpt, mutProps, queries, mut, invalidations, errOrder,
          pending, sent, lastAnswer, ops>>

\* ---------------------------------------------------------------- types.ts
histories(userId) == <<"starter", "histories", userId>>
historiesTotal == <<"starter", "histories", "total">>
user(userId) == <<"starter", "user", userId>>

\* ------------------------------------------------------- query-cache values
Err(m) == [kind |-> "Error", message |-> m]
NonErr(v) == [kind |-> "other", message |-> v]
NoError == [kind |-> "null", message |-> Null]
RejectVals == {Err("net1"), Err("net2"), NonErr("raw")}
QueryRejectVals == {Err("net1"), NonErr("raw")}
ClientRejectVals == {Err("net1")}

\* x ?? d
NullishOr(x, d) == IF x = Null THEN d ELSE x

HookUserIds == {Null, "u1"}
MutUserIds == {Null, "u1", "u2"}
HookTokens == {Null, "t1"}
EnabledOpts == {"undefined", "false"}
MutOps == {"create", "update", "delete"}

Keys == {histories(NullishOr(u, "")) : u \in HookUserIds} \cup {historiesTotal}

FreshQuery ==
  [status |-> "pending", fetching |-> FALSE, data |-> Null, error |-> NoError,
   invalidated |-> FALSE, failures |-> 0]
IdleMutation == [status |-> "idle", error |-> NoError]
NoPromise == [state |-> "none", value |-> NoError]
NoAnswer == [entry |-> [op |-> "none"], resp |-> [kind |-> "none"], promise |-> NoPromise]

UrlIdle == uBase = <<>> /\ uPath = <<>> /\ uOut = <<>> /\ uDone = FALSE
NoKeys == [histories |-> <<>>, historiesTotal |-> <<>>, user |-> <<>>]
KeysIdle == kUser = "" /\ kOther = "" /\ kOut = NoKeys /\ kDone = FALSE
ClientIdle == baseUrl = <<"h", Slash>> /\ net = <<>> /\ inv = <<>>
HooksIdle ==
  /\ listMounted = FALSE
  /\ listProps = [userId |-> Null, token |-> Null, enabled |-> "undefined"]
  /\ totalMounted = FALSE
  /\ totalOpt = "undefined"
  /\ mutProps = [userId |-> Null, token |-> Null]
  /\ queries = [k \in Keys |-> FreshQuery]
  /\ mut = [o \in MutOps |-> IdleMutation]
  /\ invalidations = <<>>
  /\ errOrder = <<>>
  /\ pending = <<>>
  /\ sent = <<>>
  /\ lastAnswer = NoAnswer
  /\ ops = 0

\* ------------------------------------------------------ buildUrl, in isolation
InitUrl ==
  /\ uBase \in StrsUpTo(MaxBaseLen)
  /\ uPath \in StrsUpTo(MaxPathLen)
  /\ uOut = <<>>
  /\ uDone = FALSE
  /\ KeysIdle
  /\ ClientIdle
  /\ HooksIdle

ApplyBuildUrl ==
  /\ ~uDone
  /\ uOut' = buildUrl(uBase, uPath)
  /\ uDone' = TRUE
  /\ UNCHANGED <<uBase, uPath>>
  /\ UNCHANGED keyVars
  /\ UNCHANGED clientVars
  /\ UNCHANGED hookVars

NextUrl == ApplyBuildUrl

SpecUrl == InitUrl /\ [][NextUrl]_vars

\* ---------------------------------------------------- QUERY_KEYS, in isolation
\* user ids are plain strings; these include the words the keys are built from
KeyUserIds == {"", "u1", "u2", "total", "histories", "user", "starter", "Total"}

InitKeys ==
  /\ kUser \in KeyUserIds
  /\ kOther \in KeyUserIds
  /\ kOut = NoKeys
  /\ kDone = FALSE
  /\ UrlIdle
  /\ ClientIdle
  /\ HooksIdle

ApplyQueryKeys ==
  /\ ~kDone
  /\ kOut' = [histories |-> histories(kUser),
              historiesTotal |-> historiesTotal,
              user |-> user(kOther)]
  /\ kDone' = TRUE
  /\ UNCHANGED <<kUser, kOther>>
  /\ UNCHANGED urlVars
  /\ UNCHANGED clientVars
  /\ UNCHANGED hookVars

NextKeys == ApplyQueryKeys

SpecKeys == InitKeys /\ [][NextKeys]_vars

\* ------------------------------------------------ StarterClient, in isolation
\* the response envelope the transport hands back in response.data
ClientEnvelopes ==
  {[success |-> TRUE, data |-> "d", error |-> Null],
   [success |-> FALSE, data |-> Null, error |-> "srv"]}

\* base URLs a client is configured with: no, one and two trailing slashes
ClientBases == {<<"h">>, <<"h", Slash>>, <<"h", Slash, Slash>>}

InitClient ==
  /\ UrlIdle
  /\ KeysIdle
  /\ baseUrl \in ClientBases
  /\ net = <<>>
  /\ inv = <<>>
  /\ HooksIdle

\* a method runs synchronously up to its `await this.networkClient.<verb>(...)`
Invoke(method, args, req) ==
  /\ Len(inv) < MaxCalls
  /\ net' = Append(net, [req |-> req, inv |-> Len(inv) + 1])
  /\ inv' = Append(inv, [method |-> method, args |-> args, state |-> "pending",
                         result |-> NoError])
  /\ UNCHANGED baseUrl
  /\ UNCHANGED <<urlVars, keyVars>>
  /\ UNCHANGED hookVars

getUser ==
  \E u \in UserIds, t \in Tokens :
    Invoke("getUser", [userId |-> u, historyId |-> Null, token |-> t],
           getUserRequest(baseUrl, u, t))

getHistories ==
  \E u \in UserIds, t \in Tokens :
    Invoke("getHistories", [userId |-> u, historyId |-> Null, token |-> t],
           getHistoriesRequest(baseUrl, u, t))

createHistory ==
  \E u \in UserIds, t \in Tokens, d \in Bodies :
    Invoke("createHistory", [userId |-> u, historyId |-> Null, token |-> t],
           createHistoryRequest(baseUrl, u, d, t))

updateHistory ==
  \E u \in UserIds, t \in Tokens, h \in HistoryIds, d \in Bodies :
    Invoke("updateHistory", [userId |-> u, historyId |-> h, token |-> t],
           updateHistoryRequest(baseUrl, u, h, d, t))

deleteHistory ==
  \E u \in UserIds, t \in Tokens, h \in HistoryIds :
    Invoke("deleteHistory", [userId |-> u, historyId |-> h, token |-> t],
           deleteHistoryRequest(baseUrl, u, h, t))

getHistoriesTotal ==
  Invoke("getHistoriesTotal", [userId |-> Null, historyId |-> Null, token |-> Null],
         getHistoriesTotalRequest(baseUrl))

\* the transport promise resolves: `return response.data`
TransportResolve ==
  \E i \in 1..Len(inv), e \in ClientEnvelopes :
    /\ inv[i].state = "pending"
    /\ inv' = [inv EXCEPT ![i] = [@ EXCEPT !.state = "resolved", !.result = e]]
    /\ UNCHANGED <<baseUrl, net>>
    /\ UNCHANGED <<urlVars, keyVars>>
    /\ UNCHANGED hookVars

TransportReject_Retry ==
  \E i \in 1..Len(inv), r \in ClientRejectVals :
    /\ inv[i].state = "pending"
    /\ inv' = [inv EXCEPT ![i] = [@ EXCEPT !.state = "rejected", !.result = r]]
    /\ net' = Append(net, [req |-> (CHOOSE c \in {net[k] : k \in 1..Len(net)} : c.inv = i).req,
                           inv |-> i])
    /\ UNCHANGED baseUrl
    /\ UNCHANGED <<urlVars, keyVars>>
    /\ UNCHANGED hookVars

\* the transport promise rejects: nothing catches it, the method's promise rejects
TransportReject ==
  \E i \in 1..Len(inv), r \in ClientRejectVals :
    /\ inv[i].state = "pending"
    /\ inv' = [inv EXCEPT ![i] = [@ EXCEPT !.state = "rejected", !.result = r]]
    /\ UNCHANGED <<baseUrl, net>>
    /\ UNCHANGED <<urlVars, keyVars>>
    /\ UNCHANGED hookVars

NextClient ==
  \/ getUser
  \/ getHistories
  \/ createHistory
  \/ updateHistory
  \/ deleteHistory
  \/ getHistoriesTotal
  \/ TransportResolve
  \/ TransportReject

SpecClient == InitClient /\ [][NextClient]_vars

\* ------------------------------------------------------------ the hooks
\* Bound on the operations the caller performs (mounts, renders, refetch calls,
\* mutations, clearError); answers, retries and invalidation refetches follow.
MaxOps == 2
\* retries the query engine makes after a failed queryFn
QueryRetry == 1

EnvResp(e) == [kind |-> "env", env |-> e]
RejResp(r) == [kind |-> "rej", val |-> r]

\* envelopes {success, data?, error?} the server answers with
Env(s, d, e) == [success |-> s, data |-> d, error |-> e]
ListEnvelopes ==
  {Env(TRUE, "[h1]", Null), Env(TRUE, "[]", Null), Env(TRUE, Null, Null),
   Env(FALSE, Null, "srv"), Env(FALSE, Null, Null), Env(FALSE, "[h1]", "srv")}
TotalEnvelopes ==
  {Env(TRUE, "{total:2}", Null), Env(TRUE, "{total:0}", Null), Env(TRUE, Null, Null),
   Env(FALSE, Null, "srv"), Env(FALSE, Null, Null), Env(FALSE, "{total:2}", "srv")}
MutEnvelopes ==
  {Env(TRUE, "hist", Null), Env(TRUE, Null, Null),
   Env(FALSE, Null, "srv"), Env(FALSE, Null, Null)}

\* data?.total
TotalOf(d) == IF d = "{total:2}" THEN 2 ELSE 0

\* useHistories: const enabled = (options?.enabled ?? true) && !!userId && !!token
ListEnabledOf(p) ==
  NullishOr(IF p.enabled = "undefined" THEN Null ELSE p.enabled, "true") = "true"
  /\ Truthy(p.userId) /\ Truthy(p.token)
ListEnabled == ListEnabledOf(listProps)
ListKeyOf(p) == histories(NullishOr(p.userId, ""))
ListKey == ListKeyOf(listProps)

\* useHistoriesTotal: const enabled = options?.enabled ?? true
TotalEnabledOf(o) == NullishOr(IF o = "undefined" THEN Null ELSE o, "true") = "true"
TotalEnabled == TotalEnabledOf(totalOpt)

queryFn_NoSuccessCheck(response, fallback) ==
  IF response.data = Null
  THEN [thrown |-> TRUE,
        value |-> Err(IF Truthy(response.error) THEN response.error ELSE fallback)]
  ELSE [thrown |-> FALSE, value |-> response.data]

queryFn_NoDataCheck(response, fallback) ==
  IF ~response.success
  THEN [thrown |-> TRUE,
        value |-> Err(IF Truthy(response.error) THEN response.error ELSE fallback)]
  ELSE [thrown |-> FALSE, value |-> response.data]

\* the queryFn of useHistories / useHistoriesTotal applied to the envelope
queryFn(response, fallback) ==
  IF ~response.success \/ response.data = Null
  THEN [thrown |-> TRUE,
        value |-> Err(IF Truthy(response.error) THEN response.error ELSE fallback)]
  ELSE [thrown |-> FALSE, value |-> response.data]

FallbackOf(by) ==
  IF by = "useHistories" THEN "Failed to fetch histories" ELSE "Failed to fetch total"

mutationFn_Throws(response) ==
  IF ~response.success
  THEN [thrown |-> TRUE, value |-> Err(NullishOr(response.error, "Mutation failed"))]
  ELSE [thrown |-> FALSE, value |-> response]

\* the mutationFn of the three mutations: the client's promise, as it is
mutationFn(response) == [thrown |-> FALSE, value |-> response]

\* onSuccess: response => { if (response.success) invalidate(); }
onSuccessInvalidates(response) == response.success

invalidate_TotalOnly(userId) == <<historiesTotal>>

onSuccessAwaits_Returned(refetches) == refetches # <<>>

\* onSuccess has a statement body: it returns undefined, so the mutation does
\* not wait for what invalidate() started
onSuccessAwaits(refetches) == FALSE

\* invalidate(): the keys handed to queryClient.invalidateQueries, in order
invalidate(userId) ==
  (IF Truthy(userId) THEN <<histories(userId)>> ELSE <<>>) \o <<historiesTotal>>

\* ---- the query engine, as far as the hooks drive it
Stale(q) == q.data = Null \/ q.invalidated

\* a transport call a hook made through its StarterClient
QueryEntry(by, key, userId, token) ==
  [req |-> IF by = "useHistories" THEN getHistoriesRequest(baseUrl, userId, token)
                                  ELSE getHistoriesTotalRequest(baseUrl),
   by |-> by, key |-> key, op |-> "query", userId |-> userId, token |-> token,
   live |-> TRUE]

CancelKey(N, key) ==
  [k \in DOMAIN N |->
     IF N[k].op = "query" /\ N[k].key = key
     THEN [N[k] EXCEPT !.live = FALSE] ELSE N[k]]

\* query.fetch(): S is [q |-> cache, n |-> calls in flight, s |-> calls made].  A fetch of a query
\* that is already fetching is dropped, unless it has data and cancelRefetch is
\* set: then the running fetch is cancelled (its answer is ignored) and a new
\* one starts.
Fetch(S, by, key, userId, token, cancelRefetch) ==
  LET cur == S.q[key]
  IN IF cur.fetching /\ ~(cur.data # Null /\ cancelRefetch) THEN S
     ELSE [q |-> [S.q EXCEPT ![key] =
                    [cur EXCEPT !.fetching = TRUE, !.failures = 0,
                                !.status = IF cur.data = Null THEN "pending" ELSE @,
                                !.error = IF cur.data = Null THEN NoError ELSE @]],
           n |-> Append(IF cur.fetching THEN CancelKey(S.n, key) ELSE S.n,
                        QueryEntry(by, key, userId, token)),
           s |-> Append(S.s, QueryEntry(by, key, userId, token))]

IsPrefix(p, k) == Len(p) <= Len(k) /\ SubSeq(k, 1, Len(p)) = p

\* a query with a mounted, enabled observer
ListActive(key) == listMounted /\ ListEnabled /\ key = ListKey
TotalActive(key) == totalMounted /\ TotalEnabled /\ key = historiesTotal

RefetchActive(S, key) ==
  LET S1 == IF ListActive(key)
            THEN Fetch(S, "useHistories", key, listProps.userId, listProps.token, TRUE)
            ELSE S
  IN IF TotalActive(key)
     THEN Fetch(S1, "useHistoriesTotal", key, Null, Null, TRUE)
     ELSE S1

RECURSIVE RefetchAll(_, _)
RefetchAll(S, keys) ==
  IF keys = {} THEN S
  ELSE LET k == CHOOSE x \in keys : TRUE
       IN RefetchAll(RefetchActive(S, k), keys \ {k})

\* queryClient.invalidateQueries({queryKey}): marks the matching queries
\* invalidated and refetches those that are active
invalidateQueries(S, filter) ==
  LET matched == {k \in Keys : IsPrefix(filter, k)}
      marked == [S EXCEPT !.q = [k \in Keys |->
                   IF k \in matched THEN [S.q[k] EXCEPT !.invalidated = TRUE] ELSE S.q[k]]]
  IN RefetchAll(marked, matched)

RECURSIVE invalidateEach(_, _)
invalidateEach(S, filters) ==
  IF filters = <<>> THEN S
  ELSE invalidateEach(invalidateQueries(S, Head(filters)), Tail(filters))

Here == [q |-> queries, n |-> pending, s |-> <<>>]

\* ---- what the hooks return
ListQuery == queries[ListKey]
TotalQuery == queries[historiesTotal]

ErrorString(e) == IF e.kind = "Error" THEN e.message ELSE Null

useHistories ==
  [histories |-> NullishOr(ListQuery.data, "[]"),
   isLoading |-> ListQuery.status = "pending" /\ ListQuery.fetching,
   error |-> ErrorString(ListQuery.error)]

useHistoriesTotal ==
  [total |-> IF TotalQuery.data = Null THEN 0 ELSE TotalOf(TotalQuery.data),
   isLoading |-> TotalQuery.status = "pending" /\ TotalQuery.fetching,
   error |-> ErrorString(TotalQuery.error)]

\* createMutation.error ?? updateMutation.error ?? deleteMutation.error
mutationError ==
  IF mut["create"].error.kind # "null" THEN mut["create"].error
  ELSE IF mut["update"].error.kind # "null" THEN mut["update"].error
  ELSE mut["delete"].error

useHistoryMutations ==
  [isCreating |-> mut["create"].status = "pending",
   isUpdating |-> mut["update"].status = "pending",
   isDeleting |-> mut["delete"].status = "pending",
   error |-> ErrorString(mutationError)]

\* how mutateAsync's promise settles on the transport's answer
mutateAsync(resp) ==
  IF resp.kind = "rej" THEN [state |-> "rejected", value |-> resp.val]
  ELSE LET r == mutationFn(resp.env)
       IN [state |-> IF r.thrown THEN "rejected" ELSE "resolved", value |-> r.value]

\* a step the caller takes: counted, and it is not a transport answer
CallerStep ==
  /\ ops < MaxOps
  /\ ops' = ops + 1
  /\ lastAnswer' = NoAnswer

Remove(seq, k) == SubSeq(seq, 1, k - 1) \o SubSeq(seq, k + 1, Len(seq))

\* ---- useHistories
ListPropsDomain == [userId : HookUserIds, token : HookTokens, enabled : EnabledOpts]

\* the observer fetches when it is (or becomes) enabled on a stale query
ObserveList(p, trigger) ==
  LET S == IF trigger /\ ListEnabledOf(p) /\ Stale(queries[ListKeyOf(p)])
           THEN Fetch(Here, "useHistories", ListKeyOf(p), p.userId, p.token, FALSE)
           ELSE Here
  IN /\ listProps' = p
     /\ queries' = S.q
     /\ pending' = S.n
     /\ sent' = S.s

MountList ==
  \E p \in ListPropsDomain :
    /\ ~listMounted
    /\ CallerStep
    /\ listMounted' = TRUE
    /\ ObserveList(p, TRUE)
    /\ UNCHANGED <<totalMounted, totalOpt, mutProps, mut, invalidations, errOrder>>
    /\ UNCHANGED clientVars
    /\ UNCHANGED <<urlVars, keyVars>>

\* a render with other arguments
RenderList ==
  \E p \in ListPropsDomain :
    /\ listMounted
    /\ p # listProps
    /\ CallerStep
    /\ ObserveList(p, ListKeyOf(p) # ListKey \/ ~ListEnabled)
    /\ UNCHANGED <<listMounted, totalMounted, totalOpt, mutProps, mut, invalidations,
                   errOrder>>
    /\ UNCHANGED clientVars
    /\ UNCHANGED <<urlVars, keyVars>>

\* the refetch function useQuery returns: it does not look at `enabled`
RefetchList ==
  /\ listMounted
  /\ CallerStep
  /\ LET S == Fetch(Here, "useHistories", ListKey, listProps.userId, listProps.token, TRUE)
     IN queries' = S.q /\ pending' = S.n /\ sent' = S.s
  /\ UNCHANGED <<listMounted, listProps, totalMounted, totalOpt, mutProps, mut,
                 invalidations, errOrder>>
  /\ UNCHANGED clientVars
  /\ UNCHANGED <<urlVars, keyVars>>

\* ---- useHistoriesTotal
ObserveTotal(o, trigger) ==
  LET S == IF trigger /\ TotalEnabledOf(o) /\ Stale(queries[historiesTotal])
           THEN Fetch(Here, "useHistoriesTotal", historiesTotal, Null, Null, FALSE)
           ELSE Here
  IN /\ totalOpt' = o
     /\ queries' = S.q
     /\ pending' = S.n
     /\ sent' = S.s

MountTotal ==
  \E o \in EnabledOpts :
    /\ ~totalMounted
    /\ CallerStep
    /\ totalMounted' = TRUE
    /\ ObserveTotal(o, TRUE)
    /\ UNCHANGED <<listMounted, listProps, mutProps, mut, invalidations, errOrder>>
    /\ UNCHANGED clientVars
    /\ UNCHANGED <<urlVars, keyVars>>

RenderTotal ==
  \E o \in EnabledOpts :
    /\ totalMounted
    /\ o # totalOpt
    /\ CallerStep
    /\ ObserveTotal(o, ~TotalEnabled)
    /\ UNCHANGED <<listMounted, listProps, totalMounted, mutProps, mut, invalidations,
                   errOrder>>
    /\ UNCHANGED clientVars
    /\ UNCHANGED <<urlVars, keyVars>>

RefetchTotal ==
  /\ totalMounted
  /\ CallerStep
  /\ LET S == Fetch(Here, "useHistoriesTotal", historiesTotal, Null, Null, TRUE)
     IN queries' = S.q /\ pending' = S.n /\ sent' = S.s
  /\ UNCHANGED <<listMounted, listProps, totalMounted, totalOpt, mutProps, mut,
                 invalidations, errOrder>>
  /\ UNCHANGED clientVars
  /\ UNCHANGED <<urlVars, keyVars>>

\* ---- the transport answers a query's request
QueryAnswers(by) ==
  {EnvResp(e) : e \in IF by = "useHistories" THEN ListEnvelopes ELSE TotalEnvelopes}
    \cup {RejResp(r) : r \in QueryRejectVals}

AnswerQuery ==
  \E k \in 1..Len(pending) :
    /\ pending[k].op = "query"
    /\ \E resp \in QueryAnswers(pending[k].by) :
         LET e == pending[k]
             q == queries[e.key]
             N1 == Remove(pending, k)
             r == IF resp.kind = "rej" THEN [thrown |-> TRUE, value |-> resp.val]
                  ELSE queryFn(resp.env, FallbackOf(e.by))
         IN /\ lastAnswer' = [entry |-> e, resp |-> resp, promise |-> NoPromise]
            /\ IF ~e.live
                 THEN pending' = N1 /\ sent' = <<>> /\ UNCHANGED queries
               ELSE IF ~r.thrown
                 THEN /\ pending' = N1
                      /\ sent' = <<>>
                      /\ queries' = [queries EXCEPT ![e.key] =
                           [status |-> "success", fetching |-> FALSE, data |-> r.value,
                            error |-> NoError, invalidated |-> FALSE, failures |-> 0]]
               ELSE IF q.failures < QueryRetry
                 THEN /\ pending' = Append(N1, QueryEntry(e.by, e.key, e.userId, e.token))
                      /\ sent' = <<QueryEntry(e.by, e.key, e.userId, e.token)>>
                      /\ queries' = [queries EXCEPT ![e.key].failures = @ + 1]
               ELSE /\ pending' = N1
                    /\ sent' = <<>>
                    /\ queries' = [queries EXCEPT ![e.key] =
                         [@ EXCEPT !.status = "error", !.fetching = FALSE,
                                   !.error = r.value, !.failures = @ + 1]]
    /\ UNCHANGED <<listMounted, listProps, totalMounted, totalOpt, mutProps, mut,
                   invalidations, errOrder, ops>>
    /\ UNCHANGED clientVars
    /\ UNCHANGED <<urlVars, keyVars>>

\* ---- useHistoryMutations
\* The hook's arguments change between mutations, not while one is in flight:
\* which render's onSuccess closure the query library then runs is its own
\* affair.
MutPropsDomain == [userId : MutUserIds, token : HookTokens]

MutationInFlight == \E k \in 1..Len(pending) : pending[k].op \in MutOps

RenderMutations ==
  \E p \in MutPropsDomain :
    /\ p # mutProps
    /\ ~MutationInFlight
    /\ CallerStep
    /\ mutProps' = p
    /\ sent' = <<>>
    /\ UNCHANGED <<listMounted, listProps, totalMounted, totalOpt, queries, mut,
                   invalidations, errOrder, pending>>
    /\ UNCHANGED clientVars
    /\ UNCHANGED <<urlVars, keyVars>>

Without(seq, x) == SelectSeq(seq, LAMBDA y : y # x)

\* mutateAsync: the mutationFn runs up to the client's transport call; the
\* observer follows the new mutation and lets go of an earlier one
Mutate(op, req) ==
  /\ CallerStep
  /\ LET e == [req |-> req, by |-> "useHistoryMutations", key |-> <<>>, op |-> op,
               userId |-> mutProps.userId, token |-> mutProps.token, live |-> TRUE]
     IN /\ pending' = Append(
             [k \in DOMAIN pending |->
                IF pending[k].op = op THEN [pending[k] EXCEPT !.live = FALSE]
                ELSE pending[k]], e)
        /\ sent' = <<e>>
  /\ mut' = [mut EXCEPT ![op] = [status |-> "pending", error |-> NoError]]
  /\ errOrder' = Without(errOrder, op)
  /\ UNCHANGED <<listMounted, listProps, totalMounted, totalOpt, mutProps, queries,
                 invalidations>>
  /\ UNCHANGED clientVars
  /\ UNCHANGED <<urlVars, keyVars>>

mutations_createHistory ==
  \E d \in Bodies :
    Mutate("create", createHistoryRequest(baseUrl, mutProps.userId, d, mutProps.token))

mutations_updateHistory ==
  \E h \in HistoryIds, d \in Bodies :
    Mutate("update", updateHistoryRequest(baseUrl, mutProps.userId, h, d, mutProps.token))

mutations_deleteHistory ==
  \E h \in HistoryIds :
    Mutate("delete", deleteHistoryRequest(baseUrl, mutProps.userId, h, mutProps.token))

MutationAnswers == {EnvResp(e) : e \in MutEnvelopes} \cup {RejResp(r) : r \in RejectVals}

\* the transport answers a mutation's request: mutationFn settles, onSuccess
\* runs, then the observer (if it still follows this mutation) takes the
\* result and the caller's promise settles
AnswerMutation ==
  \E k \in 1..Len(pending) :
    /\ pending[k].op \in MutOps
    /\ \E resp \in MutationAnswers :
         LET e == pending[k]
             N1 == Remove(pending, k)
             r == IF resp.kind = "rej" THEN [thrown |-> TRUE, value |-> resp.val]
                  ELSE mutationFn(resp.env)
             filters == IF ~r.thrown /\ onSuccessInvalidates(r.value)
                        THEN invalidate(mutProps.userId) ELSE <<>>
             S == invalidateEach([q |-> queries, n |-> N1, s |-> <<>>], filters)
             held == ~r.thrown /\ onSuccessAwaits(S.s)
         IN /\ lastAnswer' = [entry |-> e, resp |-> resp,
                               promise |-> IF held THEN [state |-> "pending", value |-> NoError]
                                           ELSE mutateAsync(resp)]
            /\ pending' = S.n
            /\ sent' = S.s
            /\ queries' = S.q
            /\ invalidations' = invalidations \o filters
            /\ mut' = IF ~e.live \/ held THEN mut
                      ELSE IF r.thrown
                      THEN [mut EXCEPT ![e.op] = [status |-> "error", error |-> r.value]]
                      ELSE [mut EXCEPT ![e.op] = [status |-> "success", error |-> NoError]]
            /\ errOrder' = IF e.live /\ r.thrown
                           THEN Append(Without(errOrder, e.op), e.op) ELSE errOrder
    /\ UNCHANGED <<listMounted, listProps, totalMounted, totalOpt, mutProps, ops>>
    /\ UNCHANGED clientVars
    /\ UNCHANGED <<urlVars, keyVars>>

\* clearError: reset() on the three mutations
clearError ==
  /\ CallerStep
  /\ mut' = [o \in MutOps |-> IdleMutation]
  /\ pending' = [k \in DOMAIN pending |->
                   IF pending[k].op \in MutOps THEN [pending[k] EXCEPT !.live = FALSE]
                   ELSE pending[k]]
  /\ sent' = <<>>
  /\ errOrder' = <<>>
  /\ UNCHANGED <<listMounted, listProps, totalMounted, totalOpt, mutProps, queries,
                 invalidations>>
  /\ UNCHANGED clientVars
  /\ UNCHANGED <<urlVars, keyVars>>

InitHooks ==
  /\ UrlIdle
  /\ KeysIdle
  /\ ClientIdle
  /\ listMounted = FALSE
  /\ listProps = [userId |-> Null, token |-> Null, enabled |-> "undefined"]
  /\ totalMounted = FALSE
  /\ totalOpt = "undefined"
  /\ mutProps \in MutPropsDomain
  /\ queries = [k \in Keys |-> FreshQuery]
  /\ mut = [o \in MutOps |-> IdleMutation]
  /\ invalidations = <<>>
  /\ errOrder = <<>>
  /\ pending = <<>>
  /\ sent = <<>>
  /\ lastAnswer = NoAnswer
  /\ ops = 0

NextHooks ==
  \/ MountList
  \/ RenderList
  \/ RefetchList
  \/ MountTotal
  \/ RenderTotal
  \/ RefetchTotal
  \/ AnswerQuery
  \/ RenderMutations
  \/ mutations_createHistory
  \/ mutations_updateHistory
  \/ mutations_deleteHistory
  \/ AnswerMutation
  \/ clearError

SpecHooks == InitHooks /\ [][NextHooks]_vars

\* ------------------------------------------------------------------ claims
IsSuffix(p, s) == Len(p) <= Len(s) /\ SubSeq(s, Len(s) - Len(p) + 1, Len(s)) = p

\* C1: buildUrl(base, path) has no double slash at the join of base and path,
\* for every base (also one ending in several slashes) and every path.
\* Fails: only one trailing slash is stripped.
C1_NoDoubleSlashAtJoin ==
  uDone =>
    LET j == Len(uOut) - Len(uPath)
    IN ~(j >= 1 /\ Len(uPath) >= 1 /\ uOut[j] = Slash /\ uOut[j + 1] = Slash)

AuthMethods == {"getUser", "getHistories", "createHistory", "updateHistory", "deleteHistory"}

\* C2: every transport call of an authenticated method carries Content-Type,
\* Accept and Authorization = "Bearer " + the token of that call; every
\* transport call of getHistoriesTotal carries Content-Type and Accept and no
\* Authorization header.
C2_Headers ==
  \A k \in 1..Len(net) :
    LET h == net[k].req.headers
        call == inv[net[k].inv]
    IN /\ {"Content-Type", "Accept"} \subseteq DOMAIN h
       /\ call.method \in AuthMethods =>
            /\ "Authorization" \in DOMAIN h
            /\ h["Authorization"] = "Bearer " \o call.args.token
       /\ call.method = "getHistoriesTotal" => "Authorization" \notin DOMAIN h

C2_Witness ==
  /\ \E k \in 1..Len(net) : inv[net[k].inv].method = "getHistoriesTotal"
  /\ \E k \in 1..Len(net) :
       inv[net[k].inv].method = "updateHistory" /\ inv[net[k].inv].args.token = "t2"

C3_Verb(m) ==
  CASE m = "createHistory" -> "POST"
    [] m = "updateHistory" -> "PUT"
    [] m = "deleteHistory" -> "DELETE"
    [] OTHER -> "GET"

C3_Path(m, a) ==
  CASE m = "getUser" -> <<"/", "api", "/", "v1", "/", "users", "/", a.userId>>
    [] m \in {"getHistories", "createHistory"} ->
         <<"/", "api", "/", "v1", "/", "users", "/", a.userId, "/", "histories">>
    [] m \in {"updateHistory", "deleteHistory"} ->
         <<"/", "api", "/", "v1", "/", "users", "/", a.userId, "/", "histories", "/",
           a.historyId>>
    [] OTHER -> <<"/", "api", "/", "v1", "/", "histories", "/", "total">>

\* C3: each invocation of a StarterClient method has issued exactly one
\* transport call, pending, resolved or rejected alike, with the verb and the
\* path of that method.
C3_OneCallPerInvocation ==
  \A i \in 1..Len(inv) :
    LET mine == {k \in 1..Len(net) : net[k].inv = i}
    IN /\ Cardinality(mine) = 1
       /\ \A k \in mine :
            /\ net[k].req.verb = C3_Verb(inv[i].method)
            /\ IsSuffix(C3_Path(inv[i].method, inv[i].args), net[k].req.url)

C3_Witness ==
  /\ Len(inv) = 2
  /\ inv[1].state = "rejected" /\ inv[1].method = "deleteHistory"
  /\ inv[2].state = "resolved" /\ inv[2].method = "createHistory"

\* ---- the step that led to the current state, read from lastAnswer
MutationAnswered(a) == a.entry.op \in MutOps
QueryAnswered(a) == a.entry.op = "query" /\ a.entry.live
IsEnvelope(a) == a.resp.kind = "env"
ServerMessage(env, fallback) == IF env.error # Null THEN env.error ELSE fallback

C5_NoRequestWhileDisabled ==
  \A i \in 1..Len(sent) :
    /\ sent[i].by = "useHistories" => ListEnabled
    /\ sent[i].by = "useHistoriesTotal" => TotalEnabled

\* C6: an answer {success: false} to a query's request leaves the query's data
\* as it was (the empty list / zero when nothing was fetched), and the query
\* either retries or ends in the error state with the server's message or
\* the generic fallback as a non-null error string.
C6_FailureEnvelope ==
  [][LET a == lastAnswer'
     IN (QueryAnswered(a) /\ IsEnvelope(a) /\ ~a.resp.env.success) =>
          LET k == a.entry.key
              msg == ServerMessage(a.resp.env, IF a.entry.by = "useHistories"
                                               THEN "Failed to fetch histories"
                                               ELSE "Failed to fetch total")
          IN /\ queries'[k].data = queries[k].data
             /\ \/ queries'[k].fetching /\ Len(sent') = 1
                \/ /\ queries'[k].status = "error"
                   /\ ErrorString(queries'[k].error) = msg
                   /\ msg # Null
             /\ (a.entry.by = "useHistories" /\ k = ListKey' /\ queries[k].data = Null) =>
                  /\ useHistories'.histories = "[]"
                  /\ ~queries'[k].fetching => useHistories'.error = msg
             /\ (a.entry.by = "useHistoriesTotal" /\ queries[k].data = Null) =>
                  /\ useHistoriesTotal'.total = 0
                  /\ ~queries'[k].fetching => useHistoriesTotal'.error = msg]_vars

C6_Witness ==
  /\ QueryAnswered(lastAnswer) /\ IsEnvelope(lastAnswer)
  /\ lastAnswer.resp.env = Env(FALSE, "[h1]", "srv")
  /\ lastAnswer.entry.by = "useHistories"
  /\ useHistories = [histories |-> "[]", isLoading |-> FALSE, error |-> "srv"]
  /\ useHistoriesTotal = [total |-> 0, isLoading |-> FALSE, error |-> "Failed to fetch total"]

C8_MissingDataIsError ==
  [][LET a == lastAnswer'
     IN /\ \A k \in Keys : queries'[k].status = "success" => queries'[k].data # Null
        /\ (QueryAnswered(a) /\ IsEnvelope(a) /\ a.resp.env.success
              /\ a.resp.env.data = Null) =>
             LET k == a.entry.key
             IN /\ queries'[k].data = queries[k].data
                /\ \/ queries'[k].fetching /\ Len(sent') = 1
                   \/ /\ queries'[k].status = "error"
                      /\ ErrorString(queries'[k].error) # Null]_vars

C8_Witness ==
  /\ QueryAnswered(lastAnswer) /\ IsEnvelope(lastAnswer)
  /\ lastAnswer.resp.env = Env(TRUE, Null, Null)
  /\ lastAnswer.entry.by = "useHistoriesTotal"
  /\ useHistoriesTotal = [total |-> 0, isLoading |-> FALSE, error |-> "Failed to fetch total"]

\* C9: every failed hook operation shows as a non-null string in the hook's
\* error field, and the promise of createHistory / updateHistory /
\* deleteHistory never hands the caller a raw exception.
\* Fails: a value that is not an Error gives error = null, and mutateAsync
\* rejects with the raw value.
C9_FailuresAreStrings ==
  /\ (listMounted /\ ListQuery.status = "error") => useHistories.error # Null
  /\ (totalMounted /\ TotalQuery.status = "error") => useHistoriesTotal.error # Null
  /\ (\E o \in MutOps : mut[o].status = "error") => useHistoryMutations.error # Null
  /\ MutationAnswered(lastAnswer) => mutateAsync(lastAnswer.resp).state # "rejected"

\* C10: the error field of useHistoryMutations is the message of the mutation
\* error that happened last, or null when no mutation holds an error.
\* Fails: create's error hides a later update or delete error.
C10_ErrorIsMostRecent ==
  useHistoryMutations.error =
    IF errOrder = <<>> THEN Null
    ELSE ErrorString(mut[errOrder[Len(errOrder)]].error)

\* C11: invalidation is fire-and-forget: on a {success: ...} answer the promise
\* of createHistory / updateHistory / deleteHistory resolves with the envelope
\* in the same step in which the refetches of the invalidated queries start,
\* so they are still in flight; and no answer to a query's request, failed
\* or not, changes a mutation's state.
C11_FireAndForget ==
  [][LET a == lastAnswer'
     IN /\ (MutationAnswered(a) /\ IsEnvelope(a)) =>
             /\ a.promise = [state |-> "resolved", value |-> a.resp.env]
             /\ a.entry.live => mut'[a.entry.op].status = "success"
             /\ \A i \in 1..Len(sent') :
                  /\ \E k \in 1..Len(pending') : pending'[k] = sent'[i]
                  /\ queries'[sent'[i].key].fetching
        /\ a.entry.op = "query" => mut' = mut]_vars

C11_Witness ==
  /\ MutationAnswered(lastAnswer) /\ IsEnvelope(lastAnswer)
  /\ lastAnswer.entry.op = "create" /\ lastAnswer.entry.live
  /\ lastAnswer.promise = [state |-> "resolved", value |-> Env(TRUE, "hist", Null)]
  /\ mut["create"].status = "success"
  /\ Len(sent) >= 1
  /\ \A i \in 1..Len(sent) : queries[sent[i].key].fetching

\* ---- C12
RequestSentFor(by, key, calls) ==
  \E i \in 1..Len(calls) : calls[i].by = by /\ calls[i].key = key

\* disabled -> idle -> loading -> (success | error): a fetch starts only with a
\* transport request of a hook that is enabled, and a query reaches success
\* or error only out of a fetch in flight
HookEnabledAfter(by) ==
  IF by = "useHistories" THEN ListEnabledOf(listProps') ELSE TotalEnabledOf(totalOpt')

PhaseOrder ==
  \A k \in Keys :
    /\ (queries'[k].fetching /\ ~queries[k].fetching) =>
         \E i \in 1..Len(sent') : sent'[i].key = k /\ HookEnabledAfter(sent'[i].by)
    /\ (queries'[k].status # queries[k].status /\ queries'[k].status \in {"success", "error"})
         => queries[k].fetching

MutationSucceeded(a) == MutationAnswered(a) /\ IsEnvelope(a) /\ a.resp.env.success

\* the list query of the mutating user, mounted and enabled
ListOfMutatingUser(a) ==
  listMounted /\ ListEnabled /\ Truthy(a.entry.userId) /\ ListKey = histories(a.entry.userId)

\* C12: every query goes disabled -> idle -> loading -> (success | error), and
\* every manual refetch and every successful mutation makes the mounted,
\* enabled list query of the mutating user and the mounted, enabled total
\* query issue a new transport request.
\* Fails: refetch() takes a disabled query into loading, and a query still
\* fetching without data keeps its fetch instead of issuing a new request.
C12_RefetchIssuesRequest ==
  [][/\ PhaseOrder
     /\ (RefetchList /\ ListEnabled) => RequestSentFor("useHistories", ListKey, sent')
     /\ (RefetchTotal /\ TotalEnabled) =>
          RequestSentFor("useHistoriesTotal", historiesTotal, sent')
     /\ MutationSucceeded(lastAnswer') =>
          /\ ListOfMutatingUser(lastAnswer') =>
               RequestSentFor("useHistories", ListKey, sent')
          /\ (totalMounted /\ TotalEnabled) =>
               RequestSentFor("useHistoriesTotal", historiesTotal, sent')]_vars

\* ---- C13
\* C13: for every user id the history-list key, the global total key and every
\* user-by-id key are pairwise different cache keys.
\* Fails: QUERY_KEYS.histories('total') is the key of QUERY_KEYS.historiesTotal().
C13_KeysPairwiseDistinct ==
  kDone =>
    /\ kOut.histories # kOut.historiesTotal
    /\ kOut.histories # kOut.user
    /\ kOut.user # kOut.historiesTotal

\* ---- C14
\* C14: the hooks issue no transport call to an authenticated endpoint while
\* the user id or the token is null: neither useHistories nor createHistory,
\* updateHistory or deleteHistory of useHistoryMutations.
\* Fails: the mutation functions call the client with userId! and token!
\* unguarded.
C14_NoAuthenticatedCallWithoutCredentials ==
  \A i \in 1..Len(sent) :
    sent[i].by \in {"useHistories", "useHistoryMutations"} =>
      sent[i].userId # Null /\ sent[i].token # Null

====
